---- MODULE Spec2Model ----
(***************************************************************************)
(* Model of the document retrieval tool (app/mcp/rag_mcp.py,               *)
(* app/rag/retrieval.py) and of the ingestion chunkers                     *)
(* (app/rag/chunking.py, app/rag/file_handle.py).                          *)
(*                                                                         *)
(* The specifications of the module:                                       *)
(*   Spec       the retrieval tool: clamp of k, tag filter, the 5 second   *)
(*              wait on the similarity search, shaping of the result;      *)
(*   SpecChunk  chunking_file: fetch, source label, dispatch by suffix,    *)
(*              the PDF / Markdown / Q&A chunkers;                         *)
(*   SpecOps    either of the two operations;                              *)
(*   SpecStart  the import of app.rag.retrieval, then the retrieval tool;  *)
(*   SpecConc   two concurrent retrieval calls.                            *)
(***************************************************************************)
EXTENDS Integers, Sequences, FiniteSets, TLC

VARIABLES
    \* ---- import of app.rag.retrieval ----
    boot,       \* how far the module-level code has run
    clients,    \* the client objects constructed so far, in construction order
    globals,    \* module globals: the index in clients each is bound to (0: unbound)
    \* ---- retrieval tool ----
    store,      \* rows of the vector store, in similarity rank order for the query
    pc,         \* per call: "idle", "waiting", "returned", "raised"
    arg,        \* per call: the arguments k and tag the agent supplied
    storeK,     \* per call: the k handed to vector_store.similarity_search
    storeFilter,\* per call: the filter handed to vector_store.similarity_search
    elapsed,    \* per call: whole seconds spent inside asyncio.wait_for
    thread,     \* per call: executor thread running the search
    threadOut,  \* per call: the list the search produced (when thread = "done")
    timedOut,   \* per call: wait_for raised asyncio.TimeoutError
    result,     \* per call: the value returned to the agent
    exc,        \* per call: the exception raised to the agent ("none" if none)
    nSearch,    \* per call: number of similarity searches started
    \* ---- chunking_file ----
    qOrder,     \* iteration order of the set QUESTION_KEYS (<<>> until iterated)
    aOrder,     \* iteration order of the set ANSWER_KEYS (<<>> until iterated)
    cpc,        \* "idle", "fetching", "fetched", "returned", "raised"
    carg,       \* the arguments tag and file_path
    cbytes,     \* the fetched file
    nFetch,     \* number of GET requests issued
    csource,    \* the local variable source of chunking_file (chunking.py:164)
    chunker,    \* the chunker that was called: "none", "pdf", "md", "json"
    cresult,    \* the value chunking_file returned
    cexc        \* the exception chunking_file raised ("none" if none)

rvars == <<store, pc, arg, storeK, storeFilter, elapsed, thread, threadOut,
           timedOut, result, exc, nSearch>>

bvars == <<boot, clients, globals>>

cvars == <<qOrder, aOrder, cpc, carg, cbytes, nFetch, csource, chunker, cresult,
           cexc>>

vars == <<bvars, rvars, cvars>>

(***************************************************************************)
(* Bounds of the model                                                     *)
(***************************************************************************)
\* the k values tried run from -KSpan to MaxK + KSpan
KSpan == 3
\* the store holds at most MaxStore rows
MaxStore == 2
\* a PDF has at most MaxPages pages
MaxPages == 2
\* a Markdown file has at most MaxSections sections
MaxSections == 2
\* a Q&A list has at most MaxItems items
MaxItems == 2

(***************************************************************************)
(* Program constants                                                       *)
(***************************************************************************)
\* rag_mcp.py:26  the cap in the clamp expression
MaxK == 20
\* rag_mcp.py:32  timeout=5.0
TimeoutSecs == 5

(***************************************************************************)
(* Values                                                                  *)
(***************************************************************************)
Calls == {"c1", "c2"}

\* The call of the specifications with one call at a time.
SoloCalls == {"c1"}

\* Python's None for the optional tag argument, and the tag strings tried.
\* The empty string is a tag like the others (it is not None).
NoTag == [some |-> FALSE, v |-> ""]
SomeTag(t) == [some |-> TRUE, v |-> t]
TagStrings == {"", "A", "B"}
TagArgs == {NoTag} \cup {SomeTag(t) : t \in {"", "A"}}
Ks == (0 - KSpan) .. (MaxK + KSpan)

\* filter=None, and filter={"tag": t}
NoFilter == [has |-> FALSE, tag |-> ""]
TagFilter(t) == [has |-> TRUE, tag |-> t]

\* A stored row: text, metadata and the embedding vector.
Rows ==
    { [text |-> x,
       metadata |-> [source |-> "doc", location |-> "Page 1", tag |-> g],
       embedding |-> "vec"] : x \in {"x", "y"}, g \in TagStrings }

RECURSIVE SeqsUpTo(_, _)
SeqsUpTo(S, n) ==
    IF n = 0 THEN {<<>>}
    ELSE LET shorter == SeqsUpTo(S, n - 1)
         IN  shorter \cup { Append(s, x) : s \in {t \in shorter : Len(t) = n - 1}, x \in S }

Stores == SeqsUpTo(Rows, MaxStore)

Abs(n) == IF n < 0 THEN 0 - n ELSE n

Min(a, b) == IF a < b THEN a ELSE b

(***************************************************************************)
(* rag_mcp.py: retrieval                                                   *)
(***************************************************************************)
\* A clamp that lets k = 0 through (k >= 0 in place of k > 0).
ClampZeroPasses(k) ==
    IF k >= 0 THEN (k + MaxK - Abs(k - MaxK)) \div 2 ELSE 1

\* rag_mcp.py:26   k = int((k + 20 - abs(k-20)) / 2) if k > 0 else 1
\* The numerator is 2k or 40, so the float division is exact and int() of it
\* is the integer quotient.
Clamp(k) ==
    IF k > 0 THEN (k + MaxK - Abs(k - MaxK)) \div 2 ELSE 1

(***************************************************************************)
(* retrieval.py: retrieve_relevant_documents                               *)
(***************************************************************************)
\* A filter built on the truthiness of tag: the empty tag gets no filter.
FilterDictTruthy(tag) ==
    IF tag.some /\ tag.v /= "" THEN TagFilter(tag.v) ELSE NoFilter

\* retrieval.py:13  filter_dict = {"tag": tag} if tag is not None else None
FilterDict(tag) ==
    IF tag.some THEN TagFilter(tag.v) ELSE NoFilter

\* The vector store boundary: the rows that pass the equality filter on the
\* metadata field, nearest first, at most k of them, each as a Document of
\* page_content and metadata.
Matches(row, f) == (~f.has) \/ row.metadata.tag = f.tag

SimilaritySearch(rows, k, f) ==
    LET hit == SelectSeq(rows, LAMBDA r : Matches(r, f))
    IN  [i \in 1 .. Min(k, Len(hit)) |->
            [page_content |-> hit[i].text, metadata |-> hit[i].metadata]]

\* A shaping that returns the documents in reverse order.
ShapeReversed(documents) ==
    [i \in 1 .. Len(documents) |->
        [text |-> documents[Len(documents) + 1 - i].page_content,
         metadata |-> documents[Len(documents) + 1 - i].metadata]]

\* retrieval.py:15-21  [{"text": item.page_content, "metadata": item.metadata} ...]
Shape(documents) ==
    [i \in 1 .. Len(documents) |->
        [text |-> documents[i].page_content, metadata |-> documents[i].metadata]]

\* The exceptions the search can raise: the embedding of the query failed, or
\* the store query failed.
SearchErrors == {"EmbeddingError", "VectorStoreError"}

(***************************************************************************)
(* Text: a string is a sequence of characters ("Question:" and "Answer:"   *)
(* stand for those runs of letters).                                       *)
(***************************************************************************)
\* The characters Python's \s and str.strip() treat as whitespace.
IsWs(ch) == ch \in {" ", "\n", "\t"}

RECURSIVE LStrip(_)
LStrip(s) ==
    IF s = <<>> THEN s
    ELSE IF IsWs(Head(s)) THEN LStrip(Tail(s)) ELSE s

RECURSIVE RStrip(_)
RStrip(s) ==
    IF s = <<>> THEN s
    ELSE IF IsWs(s[Len(s)]) THEN RStrip(SubSeq(s, 1, Len(s) - 1)) ELSE s

\* str.strip()
Strip(s) == RStrip(LStrip(s))

\* chunk.replace("\n", " ")
ReplaceNewline(s) == [i \in 1 .. Len(s) |-> IF s[i] = "\n" THEN " " ELSE s[i]]

\* re.sub(r"\s+", " ", s)
RECURSIVE CollapseWs(_)
CollapseWs(s) ==
    IF s = <<>> THEN <<>>
    ELSE IF IsWs(Head(s)) THEN <<" ">> \o CollapseWs(LStrip(Tail(s)))
    ELSE <<Head(s)>> \o CollapseWs(Tail(s))

\* A normalisation that forgets the newline replacement and the collapse.
StripOnly(chunk) == Strip(chunk)

\* chunking.py:33, 91-95
\*   clean_text = re.sub(r"\s+", " ", chunk.replace("\n", " ")).strip()
CleanText(chunk) == Strip(CollapseWs(ReplaceNewline(chunk)))

\* A chunk document whose tag is overwritten by a fixed label.
DocFixedTag(text, source, location, tag) ==
    [text |-> text,
     metadata |-> [source |-> source, location |-> location, tag |-> "A"]]

\* One chunk document.
Doc(text, source, location, tag) ==
    [text |-> text,
     metadata |-> [source |-> source, location |-> location, tag |-> tag]]

\* f"Page {n}", f"Q&A #{n}", and the Markdown heading path.
PageLoc(n) == [kind |-> "Page ", n |-> n, path |-> <<>>]
QaLoc(n) == [kind |-> "Q&A #", n |-> n, path |-> <<>>]
PathLoc(p) == [kind |-> "headings", n |-> 0, path |-> p]

(***************************************************************************)
(* RecursiveCharacterTextSplitter.split_text (library).  The splitter cuts *)
(* the text into consecutive pieces; with strip_whitespace, its default,   *)
(* it trims each piece and returns only the pieces that are not blank.     *)
(* Where it cuts depends on chunk_size and the separators: the cut         *)
(* positions are an input of the model.                                    *)
(***************************************************************************)
RECURSIVE PiecesFrom(_, _, _)
PiecesFrom(text, cuts, from) ==
    IF from > Len(text) THEN <<>>
    ELSE LET later == {c \in cuts : c >= from}
             upto == IF later = {} THEN Len(text)
                     ELSE CHOOSE c \in later : \A d \in later : c <= d
         IN  <<SubSeq(text, from, upto)>> \o PiecesFrom(text, cuts, upto + 1)

SplitText(text, cuts) ==
    LET pieces == PiecesFrom(text, cuts, 1)
        trimmed == [i \in 1 .. Len(pieces) |-> Strip(pieces[i])]
    IN  SelectSeq(trimmed, LAMBDA x : x /= <<>>)

\* The cut sets of a text: a cut at c ends a piece after character c.
CutsOf(text) == SUBSET (1 .. (Len(text) - 1))

(***************************************************************************)
(* chunking.py: chunking_pdf                                               *)
(***************************************************************************)
\* page.extract_text() of the pages tried, with the splitter's cuts.
PageTexts ==
    { <<>>, <<" ", "\n">>, <<"a", " ", " ", "b">>, <<"a", "\n", "\t", "a">> }

PagePool == UNION { { [text |-> x, cuts |-> C] : C \in CutsOf(x) } : x \in PageTexts }

\* chunking.py:25-42  the chunks of one page
PdfPageDocs(page, page_idx, tag, source) ==
    IF page.text = <<>> THEN <<>>
    ELSE LET chunks == SplitText(page.text, page.cuts)
         IN  [i \in 1 .. Len(chunks) |->
                 Doc(CleanText(chunks[i]), source, PageLoc(page_idx + 1), tag)]

\* chunking.py:16-44  page_idx counts from 0 (enumerate)
RECURSIVE PdfLoop(_, _, _, _)
PdfLoop(pages, page_idx, tag, source) ==
    IF page_idx >= Len(pages) THEN <<>>
    ELSE PdfPageDocs(pages[page_idx + 1], page_idx, tag, source)
             \o PdfLoop(pages, page_idx + 1, tag, source)

\* A chunker that drops the pages without text before it numbers them.
ChunkingPdfDenseNumbers(pages, tag, source) ==
    PdfLoop(SelectSeq(pages, LAMBDA p : p.text /= <<>>), 0, tag, source)

chunking_pdf(pages, tag, source) == PdfLoop(pages, 0, tag, source)

(***************************************************************************)
(* chunking.py: chunking_md                                                *)
(***************************************************************************)
\* A section MarkdownHeaderTextSplitter returns: the headings above it
\* ("" for an absent level) and its body; cuts are the splitter's cuts of
\* the stripped body.
SectionBodies == { <<>>, <<" ">>, <<"\n", "a", "\n", "b">> }

HeadingPaths ==
    { [h1 |-> a, h2 |-> b, h3 |-> "", h4 |-> d] :
        a \in {"", "A"}, b \in {"", "B"}, d \in {"", "D"} }

SectionPool ==
    UNION { { [headers |-> h, page_content |-> x, cuts |-> C] :
                h \in HeadingPaths, C \in CutsOf(Strip(x)) } : x \in SectionBodies }

\* A location without the "ROOT" fallback.
LocationNoRoot(headers) ==
    LET parts == <<headers.h1, headers.h2, headers.h3, headers.h4>>
    IN  PathLoc(SelectSeq(parts, LAMBDA h : h /= ""))

\* chunking.py:82-88, 101
\*   " > ".join([h for h in location_parts if h]) or "ROOT"
Location(headers) ==
    LET parts == <<headers.h1, headers.h2, headers.h3, headers.h4>>
        present == SelectSeq(parts, LAMBDA h : h /= "")
    IN  IF present = <<>> THEN PathLoc(<<"ROOT">>) ELSE PathLoc(present)

\* chunking.py:74-104  the chunks of one section
MdSectionDocs(doc, tag, source) ==
    LET section_text == Strip(doc.page_content)
    IN  IF section_text = <<>> THEN <<>>
        ELSE LET sub_chunks == SplitText(section_text, doc.cuts)
             IN  [i \in 1 .. Len(sub_chunks) |->
                     Doc(CleanText(sub_chunks[i]), source, Location(doc.headers), tag)]

RECURSIVE MdLoop(_, _, _, _)
MdLoop(md_docs, i, tag, source) ==
    IF i > Len(md_docs) THEN <<>>
    ELSE MdSectionDocs(md_docs[i], tag, source) \o MdLoop(md_docs, i + 1, tag, source)

\* chunking.py:46-106
chunking_md(md_docs, tag, source) == MdLoop(md_docs, 1, tag, source)

(***************************************************************************)
(* file_handle.py                                                          *)
(***************************************************************************)
\* A set is iterated in an order fixed by the string hashes of the process,
\* not by the order the keys are written in: any order of the three keys.
QUESTION_KEYS == {"question", "q", "query"}
ANSWER_KEYS == {"answer", "a", "response"}

Orders(S) == { o \in [1 .. Cardinality(S) -> S] : \A k \in S : \E i \in DOMAIN o : o[i] = k }

\* JSON values under an alias key; "absent" when the key is not in the item.
Absent == [kind |-> "absent", s |-> <<>>]
NullVal == [kind |-> "null", s |-> <<>>]
StrVal(s) == [kind |-> "str", s |-> s]
NumVal(digits) == [kind |-> "num", s |-> digits]

\* Python truthiness: None, "" and 0 are falsy.
Truthy(v) ==
    CASE v.kind = "str" -> v.s /= <<>>
      [] v.kind = "num" -> v.s /= <<"0">>
      [] OTHER -> FALSE

\* str(v)
PyStr(v) == IF v.kind = "null" THEN <<"None">> ELSE v.s

Fields(question, q, query, answer, a, response) ==
    [question |-> question, q |-> q, query |-> query,
     answer |-> answer, a |-> a, response |-> response]

DictItem(f) == [isdict |-> TRUE, f |-> f]

\* An item that is not an object (a JSON string, say).
NonDictItem == [isdict |-> FALSE, f |-> Fields(Absent, Absent, Absent, Absent, Absent, Absent)]

\* k in item
HasKey(item, k) == item.f[k].kind /= "absent"

\* next((item[k] for k in KEYS if k in item), None), KEYS iterated in `order`
FirstPresent(order, item) ==
    LET present == SelectSeq(order, LAMBDA k : HasKey(item, k))
    IN  IF present = <<>> THEN NullVal ELSE item.f[present[1]]

NoQa == [ok |-> FALSE, q |-> <<>>, a |-> <<>>]

\* file_handle.py:8-15  extract_qa
extract_qa(item, qo, ao) ==
    LET q == FirstPresent(qo, item)
        a == FirstPresent(ao, item)
    IN  IF ~Truthy(q) \/ ~Truthy(a) THEN NoQa
        ELSE [ok |-> TRUE, q |-> Strip(PyStr(q)), a |-> Strip(PyStr(a))]

\* A URL by its components, each a sequence of dot-separated pieces: the
\* host, the last path segment (the file name), and the query string (<<>>
\* when the URL has none).
Url(host, parts, query) == [host |-> host, parts |-> parts, query |-> query]

\* The pieces joined by the separator, as one text.
RECURSIVE Join(_, _)
Join(pieces, sep) ==
    IF pieces = <<>> THEN <<>>
    ELSE IF Len(pieces) = 1 THEN <<Head(pieces)>>
    ELSE <<Head(pieces), sep>> \o Join(Tail(pieces), sep)

\* The URL as the string the caller passes: host/name or host/name?query
\* (the scheme is left out).  A piece stands for a run of characters with
\* none of '.', '/' and '?' in it.
UrlText(url) ==
    Join(url.host, ".") \o <<"/">> \o Join(url.parts, ".")
        \o (IF url.query = <<>> THEN <<>> ELSE <<"?">> \o Join(url.query, "."))

\* The position of the first / last occurrence of ch in the text, 0 if none.
FirstIndex(text, ch) ==
    LET at == { i \in 1 .. Len(text) : text[i] = ch }
    IN  IF at = {} THEN 0 ELSE CHOOSE i \in at : \A j \in at : i <= j

LastIndex(text, ch) ==
    LET at == { i \in 1 .. Len(text) : text[i] = ch }
    IN  IF at = {} THEN 0 ELSE CHOOSE i \in at : \A j \in at : i >= j

\* urlparse(url).path: from the first '/' after the host up to the '?'.
UrlPath(text) ==
    LET from == FirstIndex(text, "/")
        q == FirstIndex(text, "?")
        to == IF q = 0 THEN Len(text) ELSE q - 1
    IN  IF from = 0 THEN <<>> ELSE SubSeq(text, from, to)

\* os.path.basename: what follows the last '/'.
Basename(path) == SubSeq(path, LastIndex(path, "/") + 1, Len(path))

\* file_path.endswith("." + ext), on the whole URL string.
EndsWith(path, ext) ==
    LET text == UrlText(path)
    IN  /\ Len(text) >= 2
        /\ text[Len(text) - 1] = "."
        /\ text[Len(text)] = ext

\* A derivation that splits the whole URL string instead of the file name.
ExtractFromWholeUrl(url) ==
    LET text == UrlText(url)
        dot == FirstIndex(text, ".")
    IN  IF dot = 0 THEN [ok |-> FALSE, label |-> <<>>]
        ELSE [ok |-> TRUE, label |-> SubSeq(text, dot + 1, Len(text))]

\* file_handle.py:18-20  extract_source_from_url
\*   filename.split(".", 1)[1]: everything after the first dot of the file
\*   name; IndexError when the file name has no dot.
extract_source_from_url(url) ==
    LET filename == Basename(UrlPath(UrlText(url)))
        dot == FirstIndex(filename, ".")
    IN  IF dot = 0 THEN [ok |-> FALSE, label |-> <<>>]
        ELSE [ok |-> TRUE, label |-> SubSeq(filename, dot + 1, Len(filename))]

\* The local variable source before chunking.py:164 has run.
NoSource == [ok |-> FALSE, label |-> <<>>]

\* file_handle.py:23-27  what httpx raises: no connection, raise_for_status,
\* the 60 second timeout
FetchErrors == {"ConnectError", "HTTPStatusError", "TimeoutException"}

(***************************************************************************)
(* chunking.py: chunking_json                                              *)
(***************************************************************************)
\* The items tried.
QaFields ==
    { Fields(Absent, Absent, Absent, Absent, Absent, Absent),
      Fields(StrVal(<<"x">>), Absent, Absent, StrVal(<<"u">>), Absent, Absent),
      Fields(Absent, StrVal(<<"y">>), Absent, Absent, Absent, Absent),
      Fields(Absent, Absent, Absent, StrVal(<<"u">>), Absent, Absent),
      Fields(StrVal(<<"x">>), StrVal(<<"y">>), StrVal(<<"z">>),
             StrVal(<<"u">>), StrVal(<<"v">>), StrVal(<<"w">>)),
      Fields(StrVal(<<>>), StrVal(<<"y">>), Absent, StrVal(<<"u">>), Absent, Absent),
      Fields(StrVal(<<"x">>), Absent, Absent, StrVal(<<>>), Absent, Absent),
      Fields(Absent, Absent, StrVal(<<" ", "z", " ", " ", "z", "\n">>),
             Absent, Absent, StrVal(<<"w">>)),
      Fields(Absent, NullVal, Absent, Absent, StrVal(<<"v">>), Absent),
      Fields(NumVal(<<"0">>), Absent, Absent, Absent, NumVal(<<"7">>), Absent),
      Fields(Absent, NumVal(<<"7">>), Absent, Absent, Absent, StrVal(<<" ">>)) }

ItemPool == {NonDictItem} \cup { DictItem(f) : f \in QaFields }

ItemLists == SeqsUpTo(ItemPool, MaxItems)

\* json.loads(file_bytes.decode("utf-8")): kind is "invalid" when decoding
\* or parsing fails, else the type of the top-level value.  For an object,
\* qa tells whether it has a key "qa" and whether that value is an array
\* ("list") or not ("other"); self holds the object's own alias keys; items
\* holds the array (the top-level one, or the one under "qa").
Json(kind, qa, self, items) == [kind |-> kind, qa |-> qa, self |-> self, items |-> items]

NoFields == Fields(Absent, Absent, Absent, Absent, Absent, Absent)

DataPool ==
    { Json("invalid", "absent", NoFields, <<>>), Json("scalar", "absent", NoFields, <<>>) }
    \cup { Json("list", "absent", NoFields, l) : l \in ItemLists }
    \cup { Json("dict", "list", NoFields, l) : l \in ItemLists }
    \cup { Json("dict", qa, f, <<>>) : qa \in {"absent", "other"}, f \in QaFields }

\* chunking.py:143  f"Question: {question}\nAnswer: {answer}"
QaText(question, answer) ==
    <<"Question:", " ">> \o question \o <<"\n", "Answer:", " ">> \o answer

\* An item choice that rejects an object whose "qa" is not an array.
ItemsOfStrictQa(data) ==
    CASE data.kind = "dict" /\ data.qa = "list" -> [ok |-> TRUE, items |-> data.items]
      [] data.kind = "dict" /\ data.qa = "absent" -> [ok |-> TRUE, items |-> <<DictItem(data.self)>>]
      [] data.kind = "list" -> [ok |-> TRUE, items |-> data.items]
      [] OTHER -> [ok |-> FALSE, items |-> <<>>]

\* chunking.py:121-131  the item list picked from the parsed value
ItemsOf(data) ==
    CASE data.kind = "dict" /\ data.qa = "list" -> [ok |-> TRUE, items |-> data.items]
      [] data.kind = "dict" -> [ok |-> TRUE, items |-> <<DictItem(data.self)>>]
      [] data.kind = "list" -> [ok |-> TRUE, items |-> data.items]
      [] OTHER -> [ok |-> FALSE, items |-> <<>>]

\* chunking.py:133-152  the loop over enumerate(items, start=1); made is the
\* number of chunks appended so far.
RECURSIVE QaLoop(_, _, _, _, _, _)
QaLoop(items, idx, tag, source, qo, ao) ==
    IF idx > Len(items) THEN <<>>
    ELSE LET item == items[idx]
             qa == extract_qa(item, qo, ao)
             rest == QaLoop(items, idx + 1, tag, source, qo, ao)
         IN  IF ~item.isdict THEN rest
             ELSE IF ~qa.ok THEN rest
             ELSE <<Doc(QaText(qa.q, qa.a), source, QaLoc(idx), tag)>> \o rest

\* A labelling that numbers the chunks instead of the items.
RECURSIVE Renumber(_, _)
Renumber(docs, n) ==
    IF docs = <<>> THEN <<>>
    ELSE <<[Head(docs) EXCEPT !.metadata.location = QaLoc(n)]>> \o Renumber(Tail(docs), n + 1)

QaDocsDense(items, tag, source, qo, ao) ==
    Renumber(QaLoop(items, 1, tag, source, qo, ao), 1)

QaDocs(items, tag, source, qo, ao) == QaLoop(items, 1, tag, source, qo, ao)

\* A chunker without the final emptiness test: an empty list is returned.
ChunkingJsonReturnsEmpty(data, tag, source, qo, ao) ==
    IF data.kind = "invalid"
    THEN [ok |-> FALSE, err |-> "ValueError: Invalid JSON file", docs |-> <<>>]
    ELSE LET picked == ItemsOf(data)
         IN  IF ~picked.ok
             THEN [ok |-> FALSE, err |-> "ValueError: JSON must be dict or list[dict]",
                   docs |-> <<>>]
             ELSE [ok |-> TRUE, err |-> "none",
                   docs |-> QaDocs(picked.items, tag, source, qo, ao)]

\* chunking.py:108-157  chunking_json
chunking_json(data, tag, source, qo, ao) ==
    IF data.kind = "invalid"
    THEN [ok |-> FALSE, err |-> "ValueError: Invalid JSON file", docs |-> <<>>]
    ELSE LET picked == ItemsOf(data)
         IN  IF ~picked.ok
             THEN [ok |-> FALSE, err |-> "ValueError: JSON must be dict or list[dict]",
                   docs |-> <<>>]
             ELSE LET documents == QaDocs(picked.items, tag, source, qo, ao)
                  IN  IF documents = <<>>
                      THEN [ok |-> FALSE, err |-> "ValueError: No valid Q&A found in JSON",
                            docs |-> <<>>]
                      ELSE [ok |-> TRUE, err |-> "none", docs |-> documents]

(***************************************************************************)
(* chunking.py: chunking_file, its inputs                                  *)
(***************************************************************************)
Tags == {"A", "B"}

Host == <<"host">>

DottedHost == <<"h", "io">>

Paths ==
    { Url(Host, <<"a", "pdf">>, <<>>),
      Url(DottedHost, <<"report", "final", "pdf">>, <<>>),
      Url(Host, <<"n", "md">>, <<>>),
      Url(Host, <<"qa", "json">>, <<>>),
      Url(Host, <<"doc", "txt">>, <<>>),
      Url(DottedHost, <<"doc", "txt">>, <<>>),
      Url(Host, <<"README">>, <<>>),
      Url(DottedHost, <<"README">>, <<"v=1", "2">>),
      Url(Host, <<"a", "pdf">>, <<"v=1", "2">>) }

\* The bytes of a fetched file, as what each reader makes of them.
File(kind, pages, md_docs, data) ==
    [kind |-> kind, pages |-> pages, md_docs |-> md_docs, data |-> data]

NoData == Json("invalid", "absent", NoFields, <<>>)

NoFile == File("none", <<>>, <<>>, NoData)

PdfFiles == { File("pdf", p, <<>>, NoData) : p \in SeqsUpTo(PagePool, MaxPages) }

MdFiles == { File("md", <<>>, d, NoData) : d \in SeqsUpTo(SectionPool, MaxSections) }

JsonFiles == { File("json", <<>>, <<>>, d) : d \in DataPool }

\* The files a URL may serve: a file of the kind its suffix names, or some
\* other bytes under any other name.
FilesAt(path) ==
    IF EndsWith(path, "pdf") THEN PdfFiles
    ELSE IF EndsWith(path, "md") THEN MdFiles
    ELSE IF EndsWith(path, "json") THEN JsonFiles
    ELSE {File("other", <<>>, <<>>, NoData)}

\* The value chunking_file returns: a list of chunks, or None.
Returned(docs) == [none |-> FALSE, docs |-> docs]
ReturnedNone == [none |-> TRUE, docs |-> <<>>]

(***************************************************************************)
(* Initial state                                                           *)
(***************************************************************************)
\* embedding.py:4-11  a NomicEmbeddings client, by the line that built it
EmbeddingClient(site) ==
    [kind |-> "embedding", site |-> site, embedding_function |-> 0]

\* vector_store.py:20-30  a TiDBVectorStore client around an embedding client
VectorStoreClient(site, embed_model) ==
    [kind |-> "vector_store", site |-> site, embedding_function |-> embed_model]

Unbound == [vs_embed_model |-> 0, vector_store |-> 0, embed_model |-> 0]

\* Nothing of app.rag.retrieval has run.
NotImported ==
    /\ boot = "start"
    /\ clients = <<>>
    /\ globals = Unbound

\* The state the import of app.rag.retrieval leaves (actions
\* ImportVectorStore, InitVectorStore, GetEmbeddingModel below).
Imported ==
    /\ boot = "serving"
    /\ clients = << EmbeddingClient("vector_store.py:18"),
                    VectorStoreClient("retrieval.py:7", 1),
                    EmbeddingClient("retrieval.py:8") >>
    /\ globals = [vs_embed_model |-> 1, vector_store |-> 2, embed_model |-> 3]

NoCalls ==
    /\ pc = [c \in Calls |-> "idle"]
    /\ arg = [c \in Calls |-> [k |-> 1, tag |-> NoTag]]
    /\ storeK = [c \in Calls |-> 0]
    /\ storeFilter = [c \in Calls |-> NoFilter]
    /\ elapsed = [c \in Calls |-> 0]
    /\ thread = [c \in Calls |-> "none"]
    /\ threadOut = [c \in Calls |-> <<>>]
    /\ timedOut = [c \in Calls |-> FALSE]
    /\ result = [c \in Calls |-> <<>>]
    /\ exc = [c \in Calls |-> "none"]
    /\ nSearch = [c \in Calls |-> 0]

InitRetrieval ==
    /\ Imported
    /\ store \in Stores
    /\ pc = [c \in Calls |-> "idle"]
    /\ arg = [c \in Calls |-> [k |-> 1, tag |-> NoTag]]
    /\ storeK = [c \in Calls |-> 0]
    /\ storeFilter = [c \in Calls |-> NoFilter]
    /\ elapsed = [c \in Calls |-> 0]
    /\ thread = [c \in Calls |-> "none"]
    /\ threadOut = [c \in Calls |-> <<>>]
    /\ timedOut = [c \in Calls |-> FALSE]
    /\ result = [c \in Calls |-> <<>>]
    /\ exc = [c \in Calls |-> "none"]
    /\ nSearch = [c \in Calls |-> 0]

ChunkingIdle ==
    /\ qOrder = <<>>
    /\ aOrder = <<>>
    /\ cpc = "idle"
    /\ carg = [tag |-> "A", path |-> Url(Host, <<"README">>, <<>>)]
    /\ csource = NoSource
    /\ cbytes = NoFile
    /\ nFetch = 0
    /\ chunker = "none"
    /\ cresult = ReturnedNone
    /\ cexc = "none"

Init == InitRetrieval /\ ChunkingIdle

\* The chunking specification starts with no retrieval call and an empty store.
InitChunk ==
    /\ NotImported
    /\ store = <<>>
    /\ pc = [c \in Calls |-> "idle"]
    /\ arg = [c \in Calls |-> [k |-> 1, tag |-> NoTag]]
    /\ storeK = [c \in Calls |-> 0]
    /\ storeFilter = [c \in Calls |-> NoFilter]
    /\ elapsed = [c \in Calls |-> 0]
    /\ thread = [c \in Calls |-> "none"]
    /\ threadOut = [c \in Calls |-> <<>>]
    /\ timedOut = [c \in Calls |-> FALSE]
    /\ result = [c \in Calls |-> <<>>]
    /\ exc = [c \in Calls |-> "none"]
    /\ nSearch = [c \in Calls |-> 0]
    /\ ChunkingIdle

(***************************************************************************)
(* Actions of the retrieval tool                                           *)
(***************************************************************************)
\* rag_mcp.py:13-33  the agent calls retrieval(query, k, tag): k is clamped,
\* wait_for starts retrieve_relevant_documents, which builds the filter and
\* hands the search to an executor thread (retrieval.py:13-14).
CallWith(c, ks, tags) ==
    /\ boot = "serving"
    /\ pc[c] = "idle"
    /\ \E k \in ks, tag \in tags :
          /\ arg' = [arg EXCEPT ![c] = [k |-> k, tag |-> tag]]
          /\ storeK' = [storeK EXCEPT ![c] = Clamp(k)]
          /\ storeFilter' = [storeFilter EXCEPT ![c] = FilterDict(tag)]
    /\ pc' = [pc EXCEPT ![c] = "waiting"]
    /\ thread' = [thread EXCEPT ![c] = "running"]
    /\ nSearch' = [nSearch EXCEPT ![c] = @ + 1]
    /\ UNCHANGED <<store, elapsed, threadOut, timedOut, result, exc,
                   cvars, bvars>>

Call(c) == CallWith(c, Ks, TagArgs)

\* One more second passes while wait_for waits.
Tick(c) ==
    /\ pc[c] = "waiting"
    /\ elapsed[c] < TimeoutSecs
    /\ elapsed' = [elapsed EXCEPT ![c] = @ + 1]
    /\ UNCHANGED <<store, pc, arg, storeK, storeFilter, thread, threadOut,
                   timedOut, result, exc,
                   nSearch, cvars, bvars>>

\* retrieval.py:14-23, rag_mcp.py:30-39  the search completes within the
\* bound: the documents are shaped and returned.
SearchOk(c) ==
    /\ pc[c] = "waiting"
    /\ thread[c] = "running"
    /\ LET documents == SimilaritySearch(store, storeK[c], storeFilter[c])
       IN  /\ threadOut' = [threadOut EXCEPT ![c] = documents]
           /\ result' = [result EXCEPT ![c] = Shape(documents)]
    /\ thread' = [thread EXCEPT ![c] = "done"]
    /\ pc' = [pc EXCEPT ![c] = "returned"]
    /\ UNCHANGED <<store, arg, storeK, storeFilter, elapsed, timedOut, exc,
                   nSearch, cvars, bvars>>

\* retrieval.py:14, rag_mcp.py:28-36  the search raises within the bound:
\* the only except clause names asyncio.TimeoutError, so the exception
\* leaves the tool.
SearchFail(c) ==
    /\ pc[c] = "waiting"
    /\ thread[c] = "running"
    /\ \E e \in SearchErrors : exc' = [exc EXCEPT ![c] = e]
    /\ thread' = [thread EXCEPT ![c] = "failed"]
    /\ pc' = [pc EXCEPT ![c] = "raised"]
    /\ UNCHANGED <<store, arg, storeK, storeFilter, elapsed, threadOut,
                   timedOut, result,
                   nSearch, cvars, bvars>>

\* A timeout handler that empties the result of every call.
TimeoutClearsAll(c) ==
    /\ pc[c] = "waiting"
    /\ thread[c] = "running"
    /\ elapsed[c] = TimeoutSecs
    /\ timedOut' = [timedOut EXCEPT ![c] = TRUE]
    /\ result' = [d \in Calls |-> <<>>]
    /\ pc' = [pc EXCEPT ![c] = "returned"]
    /\ UNCHANGED <<store, arg, storeK, storeFilter, elapsed, thread, threadOut,
                   exc,
                   nSearch, cvars, bvars>>

\* The handler of the timeout re-raises in place of returning [].
TimeoutRaises(c) ==
    /\ pc[c] = "waiting"
    /\ thread[c] = "running"
    /\ elapsed[c] = TimeoutSecs
    /\ timedOut' = [timedOut EXCEPT ![c] = TRUE]
    /\ exc' = [exc EXCEPT ![c] = "TimeoutError"]
    /\ pc' = [pc EXCEPT ![c] = "raised"]
    /\ UNCHANGED <<store, arg, storeK, storeFilter, elapsed, thread, threadOut,
                   result,
                   nSearch, cvars, bvars>>

\* rag_mcp.py:30-36  the bound expires with the search still running:
\* wait_for cancels the wait and raises asyncio.TimeoutError, the handler
\* sets results = [] and the tool returns it.  The executor thread is not
\* stopped.
Timeout(c) ==
    /\ pc[c] = "waiting"
    /\ thread[c] = "running"
    /\ elapsed[c] = TimeoutSecs
    /\ timedOut' = [timedOut EXCEPT ![c] = TRUE]
    /\ result' = [result EXCEPT ![c] = <<>>]
    /\ pc' = [pc EXCEPT ![c] = "returned"]
    /\ UNCHANGED <<store, arg, storeK, storeFilter, elapsed, thread, threadOut,
                   exc,
                   nSearch, cvars, bvars>>

\* The thread's late list is handed to the call that already returned.
LateCompleteDelivers(c) ==
    /\ pc[c] = "returned"
    /\ timedOut[c]
    /\ thread[c] = "running"
    /\ thread' = [thread EXCEPT ![c] = "done"]
    /\ threadOut' = [threadOut EXCEPT ![c] =
                        SimilaritySearch(store, storeK[c], storeFilter[c])]
    /\ result' = [result EXCEPT ![c] = Shape(threadOut'[c])]
    /\ UNCHANGED <<store, pc, arg, storeK, storeFilter, elapsed, timedOut, exc,
                   nSearch, cvars, bvars>>

\* retrieval.py:14  the executor thread of a timed-out call finishes later,
\* with a list or with an exception; the cancelled coroutine is gone, so
\* nothing reads the outcome.
LateComplete(c) ==
    /\ pc[c] = "returned"
    /\ timedOut[c]
    /\ thread[c] = "running"
    /\ \/ /\ thread' = [thread EXCEPT ![c] = "done"]
          /\ threadOut' = [threadOut EXCEPT ![c] =
                              SimilaritySearch(store, storeK[c], storeFilter[c])]
       \/ /\ thread' = [thread EXCEPT ![c] = "failed"]
          /\ UNCHANGED threadOut
    /\ UNCHANGED <<store, pc, arg, storeK, storeFilter, elapsed, timedOut,
                   result, exc,
                   nSearch, cvars, bvars>>

Next ==
    \E c \in SoloCalls :
        \/ Call(c)
        \/ Tick(c)
        \/ SearchOk(c)
        \/ SearchFail(c)
        \/ Timeout(c)
        \/ LateComplete(c)

Spec == Init /\ [][Next]_vars

(***************************************************************************)
(* Process start: the import of app.rag.retrieval (rag_mcp.py:2), then the *)
(* retrieval tool.                                                         *)
(***************************************************************************)
\* retrieval.py:1 imports app.rag.vector_store, whose module body ends with
\* embed_model = get_embedding_model() (vector_store.py:18).
ImportVectorStore ==
    /\ boot = "start"
    /\ clients' = Append(clients, EmbeddingClient("vector_store.py:18"))
    /\ globals' = [globals EXCEPT !.vs_embed_model = Len(clients')]
    /\ boot' = "vector_store_imported"
    /\ UNCHANGED <<rvars, cvars>>

\* retrieval.py:7  vector_store = init_vector_store(): a TiDBVectorStore
\* with embedding_function = vector_store.embed_model (vector_store.py:21-24).
InitVectorStore ==
    /\ boot = "vector_store_imported"
    /\ clients' = Append(clients,
                         VectorStoreClient("retrieval.py:7", globals.vs_embed_model))
    /\ globals' = [globals EXCEPT !.vector_store = Len(clients')]
    /\ boot' = "store_built"
    /\ UNCHANGED <<rvars, cvars>>

\* retrieval.py:8  embed_model = get_embedding_model(): a NomicEmbeddings
\* object is constructed again (embedding.py:4-11 keeps no instance).
GetEmbeddingModel ==
    /\ boot = "store_built"
    /\ clients' = Append(clients, EmbeddingClient("retrieval.py:8"))
    /\ globals' = [globals EXCEPT !.embed_model = Len(clients')]
    /\ boot' = "serving"
    /\ UNCHANGED <<rvars, cvars>>

InitStart ==
    /\ NotImported
    /\ store \in Stores
    /\ NoCalls
    /\ ChunkingIdle

NextStart ==
    \/ ImportVectorStore
    \/ InitVectorStore
    \/ GetEmbeddingModel
    \/ \E c \in SoloCalls :
          \/ Call(c)
          \/ Tick(c)
          \/ SearchOk(c)
          \/ SearchFail(c)
          \/ Timeout(c)
          \/ LateComplete(c)

SpecStart == InitStart /\ [][NextStart]_vars

(***************************************************************************)
(* Concurrent retrieval calls: every call of Calls, interleaved at each    *)
(* await, over a few arguments and stores.                                 *)
(***************************************************************************)
ConcKs == {1, MaxK + 1}

ConcTags == {NoTag, SomeTag("A")}

ConcRow(x, g) ==
    [text |-> x,
     metadata |-> [source |-> "doc", location |-> "Page 1", tag |-> g],
     embedding |-> "vec"]

ConcStores == { <<>>, <<ConcRow("x", "A"), ConcRow("y", "B")>>,
                <<ConcRow("x", "B"), ConcRow("y", "A")>> }

InitConc ==
    /\ Imported
    /\ store \in ConcStores
    /\ NoCalls
    /\ ChunkingIdle

NextConc ==
    \E c \in Calls :
        \/ CallWith(c, ConcKs, ConcTags)
        \/ Tick(c)
        \/ SearchOk(c)
        \/ SearchFail(c)
        \/ Timeout(c)
        \/ LateComplete(c)

SpecConc == InitConc /\ [][NextConc]_vars

(***************************************************************************)
(* Actions of chunking_file                                                *)
(***************************************************************************)
\* chunking.py:161-162  chunking_file(tag, file_path) is called and issues
\* its GET (file_handle.py:24-25).
ChunkingFile ==
    /\ cpc = "idle"
    /\ \E tag \in Tags, path \in Paths : carg' = [tag |-> tag, path |-> path]
    /\ nFetch' = nFetch + 1
    /\ cpc' = "fetching"
    /\ UNCHANGED <<qOrder, aOrder, cbytes, csource, chunker, cresult, cexc, rvars, bvars>>

\* file_handle.py:25-27  the GET succeeds: resp.content
FetchOk ==
    /\ cpc = "fetching"
    /\ \E f \in FilesAt(carg.path) : cbytes' = f
    /\ cpc' = "fetched"
    /\ UNCHANGED <<qOrder, aOrder, carg, nFetch, csource, chunker, cresult, cexc,
                   rvars, bvars>>

\* A fetch that is issued again after a failure.
FetchFailRetries ==
    /\ cpc = "fetching"
    /\ nFetch < 3
    /\ nFetch' = nFetch + 1
    /\ UNCHANGED <<qOrder, aOrder, cpc, carg, cbytes, csource, chunker, cresult, cexc,
                   rvars, bvars>>

\* file_handle.py:24-26  the GET fails or raise_for_status raises: the
\* exception leaves read_file_from_url and chunking_file (chunking.py:162).
FetchFail ==
    /\ cpc = "fetching"
    /\ \E e \in FetchErrors : cexc' = e
    /\ cpc' = "raised"
    /\ UNCHANGED <<qOrder, aOrder, carg, cbytes, nFetch, csource, chunker, cresult,
                   rvars, bvars>>

\* chunking.py:164-179  the source label, then the branch on the suffix.
\* The last branch builds a ValueError and drops it (no raise), so the
\* function falls off its end and returns None.
Dispatch ==
    /\ cpc = "fetched"
    /\ LET src == extract_source_from_url(carg.path)
           source == src.label
           tag == carg.tag
       IN  IF ~src.ok
           THEN /\ cpc' = "raised"
                /\ cexc' = "IndexError"
                /\ UNCHANGED <<qOrder, aOrder, csource, chunker, cresult>>
           ELSE IF EndsWith(carg.path, "pdf")
           THEN /\ chunker' = "pdf"
                /\ csource' = src
                /\ cresult' = Returned(chunking_pdf(cbytes.pages, tag, source))
                /\ cpc' = "returned"
                /\ UNCHANGED <<qOrder, aOrder, cexc>>
           ELSE IF EndsWith(carg.path, "md")
           THEN /\ chunker' = "md"
                /\ csource' = src
                /\ cresult' = Returned(chunking_md(cbytes.md_docs, tag, source))
                /\ cpc' = "returned"
                /\ UNCHANGED <<qOrder, aOrder, cexc>>
           ELSE IF EndsWith(carg.path, "json")
           THEN \E qo \in Orders(QUESTION_KEYS), ao \in Orders(ANSWER_KEYS) :
                  LET r == chunking_json(cbytes.data, tag, source, qo, ao)
                  IN  /\ qOrder' = qo
                      /\ aOrder' = ao
                      /\ chunker' = "json"
                      /\ csource' = src
                      /\ IF r.ok
                         THEN /\ cresult' = Returned(r.docs)
                              /\ cpc' = "returned"
                              /\ UNCHANGED cexc
                         ELSE /\ cexc' = r.err
                              /\ cpc' = "raised"
                              /\ UNCHANGED cresult
           ELSE /\ cresult' = ReturnedNone
                /\ csource' = src
                /\ cpc' = "returned"
                /\ UNCHANGED <<qOrder, aOrder, chunker, cexc>>
    /\ UNCHANGED <<carg, cbytes, nFetch, rvars, bvars>>

NextChunk ==
    \/ ChunkingFile
    \/ FetchOk
    \/ FetchFail
    \/ Dispatch

SpecChunk == InitChunk /\ [][NextChunk]_vars

(***************************************************************************)
(* Both operations.  retrieval and chunking_file share no state, so a      *)
(* behaviour runs one of them: a retrieval call over any store, or a       *)
(* chunking_file call before any document is stored.                       *)
(***************************************************************************)
NoRetrieval == store = <<>> /\ \A c \in Calls : pc[c] = "idle"

NoChunking == cpc = "idle"

NextOps ==
    \/ \E c \in SoloCalls : NoChunking /\ Call(c)
    \/ \E c \in SoloCalls : NoChunking /\ Tick(c)
    \/ \E c \in SoloCalls : NoChunking /\ SearchOk(c)
    \/ \E c \in SoloCalls : NoChunking /\ SearchFail(c)
    \/ \E c \in SoloCalls : NoChunking /\ Timeout(c)
    \/ \E c \in SoloCalls : NoChunking /\ LateComplete(c)
    \/ NoRetrieval /\ ChunkingFile
    \/ NoRetrieval /\ FetchOk
    \/ NoRetrieval /\ FetchFail
    \/ NoRetrieval /\ Dispatch

SpecOps == Init /\ [][NextOps]_vars

(***************************************************************************)
(* Properties of the retrieval tool (checked under Spec)                   *)
(***************************************************************************)
Started(c) == pc[c] /= "idle"

Succeeded(c) == pc[c] = "returned" /\ ~timedOut[c]

\* C1: the k that reaches the similarity search is 1 when the supplied k is
\* at most 0, k itself when 1 <= k <= 20, and 20 when k > 20; the store is
\* never queried with a k outside 1..20.
C1_ClampedK ==
    \A c \in Calls :
        Started(c) =>
            /\ arg[c].k <= 0 => storeK[c] = 1
            /\ (1 <= arg[c].k /\ arg[c].k <= 20) => storeK[c] = arg[c].k
            /\ arg[c].k > 20 => storeK[c] = 20
            /\ storeK[c] \in 1 .. 20

\* A call with k above the cap and a call with k at zero have both happened
\* (here: one call, k above the cap, searched with 20).
C1_Witness ==
    \E c \in Calls : Started(c) /\ arg[c].k > 20 /\ storeK[c] = 20

\* C2: when the 5 second bound expires with the search still running, the
\* tool returns the empty list and raises nothing; the later completion of
\* that search changes nothing of what was returned.
C2_TimeoutReturnsEmpty ==
    \A c \in Calls :
        timedOut[c] => pc[c] = "returned" /\ result[c] = <<>> /\ exc[c] = "none"

\* A timed-out call whose search later completed with a non-empty list.
C2_Witness ==
    \E c \in Calls :
        /\ timedOut[c]
        /\ elapsed[c] = TimeoutSecs
        /\ thread[c] = "done"
        /\ Len(threadOut[c]) > 0
        /\ result[c] = <<>>

\* C3 as stated: no terminated call surfaces an exception, whatever the
\* outcome of the search.
C3_NeverRaises ==
    \A c \in Calls : pc[c] /= "raised"

\* C3 amended: a call that terminates after a successful search or a
\* timeout returns a list of {text, metadata} (empty on timeout) and raises
\* nothing; a call whose search fails within the bound raises that failure
\* to the caller, and these are the only calls that raise.
C3_DegradeOnlyOnTimeout ==
    \A c \in Calls :
        /\ pc[c] = "returned" =>
              /\ exc[c] = "none"
              /\ \A i \in 1 .. Len(result[c]) :
                    DOMAIN result[c][i] = {"text", "metadata"}
              /\ timedOut[c] => result[c] = <<>>
        /\ pc[c] = "raised" <=> (thread[c] = "failed" /\ ~timedOut[c])
        /\ pc[c] = "raised" => exc[c] \in SearchErrors

\* A call ended by the failure of the embedding provider.
C3_Witness ==
    \E c \in Calls : pc[c] = "raised" /\ exc[c] = "EmbeddingError"

\* C4: with a non-null tag t (the empty string included) the store query
\* carries the equality filter tag = t and every returned chunk has
\* metadata.tag = t; with a null tag the query carries no filter.
C4_TagFilter ==
    \A c \in Calls :
        Started(c) =>
            /\ arg[c].tag.some =>
                  /\ storeFilter[c].has
                  /\ storeFilter[c].tag = arg[c].tag.v
                  /\ Succeeded(c) =>
                        \A i \in 1 .. Len(result[c]) :
                            result[c][i].metadata.tag = arg[c].tag.v
            /\ ~arg[c].tag.some => ~storeFilter[c].has

\* A search with the empty tag over a store that also holds a row of another
\* tag returned a row.
C4_Witness ==
    \E c \in Calls :
        /\ Succeeded(c)
        /\ arg[c].tag = SomeTag("")
        /\ Len(result[c]) > 0
        /\ \E i \in 1 .. Len(store) : store[i].metadata.tag /= ""

\* C5: on a successful search the result has the length and the order of the
\* list the store returned, and each element is exactly the entry's text and
\* metadata (no embedding field).
C5_ResultShape ==
    \A c \in Calls :
        Succeeded(c) =>
            /\ Len(result[c]) = Len(threadOut[c])
            /\ \A i \in 1 .. Len(result[c]) :
                  /\ DOMAIN result[c][i] = {"text", "metadata"}
                  /\ result[c][i].text = threadOut[c][i].page_content
                  /\ result[c][i].metadata = threadOut[c][i].metadata

\* A successful search that returned two different entries.
C5_Witness ==
    \E c \in Calls :
        /\ Succeeded(c)
        /\ Len(result[c]) = 2
        /\ result[c][1] /= result[c][2]

(***************************************************************************)
(* Properties of chunking_file (checked under SpecChunk)                   *)
(***************************************************************************)
Finished == cpc \in {"returned", "raised"}

Fetched == cbytes /= NoFile

ReturnedDocs == cpc = "returned" /\ ~cresult.none

HasNewline(text) == \E i \in 1 .. Len(text) : text[i] = "\n"

HasSpaceRun(text) == \E i \in 1 .. Len(text) - 1 : text[i] = " " /\ text[i + 1] = " "

\* The file name's extension is one of pdf, md, json.
NameSuffixSupported(path) ==
    /\ Len(path.parts) >= 2
    /\ path.parts[Len(path.parts)] \in {"pdf", "md", "json"}

\* C6 as stated: for a path whose suffix is none of .pdf, .md, .json, a call
\* whose fetch succeeded ends in a fatal error, does not return normally
\* with any value, and no chunker was called.  (The claim names the
\* unsupported-format error; any raised error is accepted here.)
C6_UnsupportedSuffixRaises ==
    (Finished /\ Fetched /\ ~NameSuffixSupported(carg.path)) =>
        /\ cpc = "raised"
        /\ chunker = "none"

RECURSIVE PdfSplitCount(_)
PdfSplitCount(pages) ==
    IF pages = <<>> THEN 0
    ELSE (IF Head(pages).text = <<>> THEN 0
          ELSE Len(SplitText(Head(pages).text, Head(pages).cuts)))
         + PdfSplitCount(Tail(pages))

RECURSIVE MdSplitCount(_)
MdSplitCount(md_docs) ==
    IF md_docs = <<>> THEN 0
    ELSE Len(SplitText(Strip(Head(md_docs).page_content), Head(md_docs).cuts))
         + MdSplitCount(Tail(md_docs))

QaItems == ItemsOf(cbytes.data).items

QaReturned == ReturnedDocs /\ chunker = "json"

LabelOf(doc) == doc.metadata.location.n

\* Items that are objects holding a question alias key and an answer alias key.
WithBothKeys ==
    { i \in 1 .. Len(QaItems) :
        /\ QaItems[i].isdict
        /\ \E k \in QUESTION_KEYS : HasKey(QaItems[i], k)
        /\ \E k \in ANSWER_KEYS : HasKey(QaItems[i], k) }

\* Items that are objects in which the question alias taken and the answer
\* alias taken both have a truthy value.
WithBothValues ==
    { i \in 1 .. Len(QaItems) :
        /\ QaItems[i].isdict
        /\ Truthy(FirstPresent(qOrder, QaItems[i]))
        /\ Truthy(FirstPresent(aOrder, QaItems[i])) }

\* The chunks are exactly the items of `valid`, in input order, each
\* labelled with its 1-based position among all items.
OneChunkPerItemOf(valid) ==
    /\ Len(cresult.docs) = Cardinality(valid)
    /\ \A j \in 1 .. Len(cresult.docs) :
          /\ cresult.docs[j].metadata.location = QaLoc(LabelOf(cresult.docs[j]))
          /\ LabelOf(cresult.docs[j]) \in valid
          /\ j > 1 => LabelOf(cresult.docs[j - 1]) < LabelOf(cresult.docs[j])

\* C8 as stated: one chunk for each item that is an object containing a
\* question alias key and an answer alias key, nothing for the others, in
\* input order, labelled by position among all items.
C8_OneChunkPerKeyedItem ==
    QaReturned => OneChunkPerItemOf(WithBothKeys)

\* C8 amended: one chunk for each item that is an object in which the
\* question alias taken by extract_qa and the answer alias taken by it both
\* have a truthy value (not null, not "", not 0); nothing for every other
\* item, an item holding both keys with an empty value included; input
\* order is kept and each chunk is labelled 'Q&A #n', n the item's 1-based
\* position among all input items.
C8_OneChunkPerValuedItem ==
    /\ QaReturned => OneChunkPerItemOf(WithBothValues)
    /\ (Finished /\ chunker = "json" /\ cexc = "ValueError: No valid Q&A found in JSON")
          => WithBothValues = {}

\* Of two items the first was skipped for an empty answer and the second
\* became the one chunk, labelled 2.
C8_Witness ==
    /\ QaReturned
    /\ Len(QaItems) = 2
    /\ 1 \in WithBothKeys
    /\ Len(cresult.docs) = 1
    /\ LabelOf(cresult.docs[1]) = 2

\* C9 as stated: the question of a chunk is the value of the first present
\* key in the order question, q, query, and its answer the value of the
\* first present key in the order answer, a, response.
C9_FixedPriority ==
    QaReturned =>
        \A j \in 1 .. Len(cresult.docs) :
            LET item == QaItems[LabelOf(cresult.docs[j])]
                question == FirstPresent(<<"question", "q", "query">>, item)
                answer == FirstPresent(<<"answer", "a", "response">>, item)
            IN  cresult.docs[j].text = QaText(Strip(PyStr(question)), Strip(PyStr(answer)))

\* The outcome of the Q&A chunker over a given item list.
QaOutcomeOver(items) ==
    LET docs == QaDocs(items, carg.tag, extract_source_from_url(carg.path).label,
                       qOrder, aOrder)
    IN  IF docs = <<>>
        THEN cpc = "raised" /\ cexc = "ValueError: No valid Q&A found in JSON"
        ELSE cpc = "returned" /\ cresult = Returned(docs)

\* C10: the item list is the top-level array itself; for an object, the
\* array under its key qa; any other object (one whose qa is not an array
\* included) is the single item; any other top-level value is a fatal
\* format error.
C10_TopLevelShapes ==
    (Finished /\ chunker = "json" /\ cbytes.data.kind /= "invalid") =>
        LET data == cbytes.data
        IN  /\ data.kind = "list" => QaOutcomeOver(data.items)
            /\ (data.kind = "dict" /\ data.qa = "list") => QaOutcomeOver(data.items)
            /\ (data.kind = "dict" /\ data.qa /= "list")
                  => QaOutcomeOver(<<DictItem(data.self)>>)
            /\ data.kind \notin {"list", "dict"} =>
                  cpc = "raised" /\ cexc = "ValueError: JSON must be dict or list[dict]"

\* An object whose qa is not an array, and which holds a question and an
\* answer itself, became one chunk.
C10_Witness ==
    /\ QaReturned
    /\ cbytes.data.kind = "dict"
    /\ cbytes.data.qa = "other"
    /\ Len(cresult.docs) = 1

\* C11: the Q&A chunker fails with a format error when the bytes do not
\* decode or parse and when no input item yields a chunk; so every normal
\* return of the chunker is a non-empty list of chunks.
C11_FormatErrors ==
    (Finished /\ chunker = "json") =>
        /\ cbytes.data.kind = "invalid" =>
              cpc = "raised" /\ cexc = "ValueError: Invalid JSON file"
        /\ (cbytes.data.kind \in {"list", "dict"} /\ WithBothValues = {}) =>
              cpc = "raised" /\ cexc = "ValueError: No valid Q&A found in JSON"
        /\ cpc = "returned" => (~cresult.none /\ Len(cresult.docs) >= 1)
        /\ cpc = "raised" => cexc \in { "ValueError: Invalid JSON file",
                                        "ValueError: JSON must be dict or list[dict]",
                                        "ValueError: No valid Q&A found in JSON" }

\* The file {"qa": [{}]} ended in the error.
C11_Witness ==
    /\ cpc = "raised"
    /\ chunker = "json"
    /\ cbytes.data.kind = "dict"
    /\ cbytes.data.qa = "list"
    /\ cbytes.data.items = <<DictItem(NoFields)>>
    /\ cexc = "ValueError: No valid Q&A found in JSON"

PdfReturned == ReturnedDocs /\ chunker = "pdf"

MdReturned == ReturnedDocs /\ chunker = "md"

\* The texts of the chunks that carry the given location, in result order.
TextsAt(docs, location) ==
    LET at == SelectSeq(docs, LAMBDA d : d.metadata.location = location)
    IN  [i \in 1 .. Len(at) |-> at[i].text]

\* The normalised splits of a text, in splitter order.
CleanSplits(text, cuts) ==
    LET splits == SplitText(text, cuts)
    IN  [i \in 1 .. Len(splits) |-> CleanText(splits[i])]

\* C12: every chunk of a PDF is located 'Page n', n the 1-based index in
\* the document of the page it was cut from; a page with empty text gives
\* no chunk and does not shift the numbers of later pages; chunks come in
\* page order.
C12_PageNumbers ==
    PdfReturned =>
        LET pages == cbytes.pages
            docs == cresult.docs
        IN  /\ \A j \in 1 .. Len(docs) :
                  /\ docs[j].metadata.location = PageLoc(LabelOf(docs[j]))
                  /\ LabelOf(docs[j]) \in 1 .. Len(pages)
                  /\ pages[LabelOf(docs[j])].text /= <<>>
                  /\ j > 1 => LabelOf(docs[j - 1]) <= LabelOf(docs[j])
            /\ \A n \in 1 .. Len(pages) :
                  TextsAt(docs, PageLoc(n)) =
                      IF pages[n].text = <<>> THEN <<>>
                      ELSE CleanSplits(pages[n].text, pages[n].cuts)

\* A two-page PDF whose first page has no text: its chunks are all on
\* 'Page 2'.
C12_Witness ==
    /\ PdfReturned
    /\ Len(cbytes.pages) = 2
    /\ cbytes.pages[1].text = <<>>
    /\ Len(cresult.docs) = 2
    /\ \A j \in 1 .. Len(cresult.docs) : cresult.docs[j].metadata.location = PageLoc(2)

\* p is the present (non-empty) levels of <<h1, h2, h3, h4>>, in that order.
IsPresentLevels(p, headers) ==
    LET levels == <<headers.h1, headers.h2, headers.h3, headers.h4>>
        present == { i \in 1 .. 4 : levels[i] /= "" }
    IN  /\ Len(p) = Cardinality(present)
        /\ \E f \in [1 .. Len(p) -> 1 .. 4] :
              /\ \A j \in 1 .. Len(p) : f[j] \in present /\ p[j] = levels[f[j]]
              /\ \A j \in 1 .. Len(p) - 1 : f[j] < f[j + 1]

ExpectedLocation(p, headers) ==
    IF headers.h1 = "" /\ headers.h2 = "" /\ headers.h3 = "" /\ headers.h4 = ""
    THEN p = <<"ROOT">>
    ELSE IsPresentLevels(p, headers)

\* The chunks are, section after section, one per split of the stripped
\* body, each located by the section's headings.
RECURSIVE SectionsLocated(_, _)
SectionsLocated(md_docs, docs) ==
    IF md_docs = <<>> THEN docs = <<>>
    ELSE LET doc == Head(md_docs)
             body == Strip(doc.page_content)
             texts == IF body = <<>> THEN <<>> ELSE CleanSplits(body, doc.cuts)
             n == Len(texts)
         IN  /\ Len(docs) >= n
             /\ \A j \in 1 .. n :
                   /\ docs[j].text = texts[j]
                   /\ docs[j].metadata.location.kind = "headings"
                   /\ ExpectedLocation(docs[j].metadata.location.path, doc.headers)
             /\ SectionsLocated(Tail(md_docs), SubSeq(docs, n + 1, Len(docs)))

\* C13: the location of each chunk of a Markdown section is the section's
\* present heading levels in the order h1, h2, h3, h4 joined with ' > ', or
\* 'ROOT' when the section has no heading; a section whose stripped body is
\* empty gives no chunk.
C13_HeadingPath ==
    MdReturned => SectionsLocated(cbytes.md_docs, cresult.docs)

\* A section without heading and a section under h2 and h4 only (no h1):
\* the chunks are located 'ROOT' and 'B > D'.
C13_Witness ==
    /\ MdReturned
    /\ Len(cbytes.md_docs) = 2
    /\ Len(cresult.docs) >= 2
    /\ cresult.docs[1].metadata.location = PathLoc(<<"ROOT">>)
    /\ cresult.docs[Len(cresult.docs)].metadata.location = PathLoc(<<"B", "D">>)

\* C14: all chunks of one chunking_file call carry the tag argument of the
\* call as metadata.tag and the label derived from the path of the call as
\* metadata.source.
C14_SameTagAndSource ==
    ReturnedDocs =>
        \A j \in 1 .. Len(cresult.docs) :
            /\ cresult.docs[j].metadata.tag = carg.tag
            /\ cresult.docs[j].metadata.source = extract_source_from_url(carg.path).label

\* A call with tag "B" returned several chunks.
C14_Witness ==
    /\ ReturnedDocs
    /\ carg.tag = "B"
    /\ Len(cresult.docs) >= 2

\* chunking_file got past the fetch and ended.
Dispatched == Finished /\ Fetched

\* C15: for a URL whose file name has a '.', the source label is the file
\* name without everything up to and including its first '.'; URLs with
\* the same file name have the same label whatever their host and query.
C15_SourceLabel ==
    (Dispatched /\ Len(carg.path.parts) >= 2) =>
        /\ csource = [ok |-> TRUE, label |-> Join(Tail(carg.path.parts), ".")]
        /\ \A p \in Paths :
              p.parts = carg.path.parts => extract_source_from_url(p) = csource

\* h.io/report.final.pdf was chunked under the label final.pdf.
C15_Witness ==
    /\ ReturnedDocs
    /\ carg.path = Url(DottedHost, <<"report", "final", "pdf">>, <<>>)
    /\ csource.label = <<"final", ".", "pdf">>
    /\ Len(cresult.docs) >= 1
    /\ cresult.docs[1].metadata.source = <<"final", ".", "pdf">>

\* C16: nothing is retried.  A retrieval call starts at most one similarity
\* search and a chunking_file call issues at most one fetch; when the fetch
\* fails its error is raised to the caller, no chunker has run and no chunk
\* is returned.
C16_NoRetry ==
    /\ \A c \in Calls : nSearch[c] <= 1
    /\ \A c \in Calls : pc[c] /= "idle" => nSearch[c] = 1
    /\ nFetch <= 1
    /\ cpc /= "idle" => nFetch = 1
    /\ (cpc /= "idle" /\ ~Fetched /\ cpc /= "fetching") =>
          /\ cpc = "raised"
          /\ cexc \in FetchErrors
          /\ chunker = "none"
          /\ cresult = ReturnedNone
    /\ cexc \in FetchErrors => (cpc = "raised" /\ ~Fetched /\ chunker = "none")

\* The one fetch of a call failed on its status and the call raised.
C16_Witness ==
    /\ cpc = "raised"
    /\ cexc = "HTTPStatusError"
    /\ nFetch = 1
    /\ chunker = "none"

ClientsOfKind(kind) == { i \in 1 .. Len(clients) : clients[i].kind = kind }

\* C17 as stated: when the retrieval service has started, exactly one
\* embedding client and exactly one vector-store client have been
\* constructed, the embedding client before the store that wraps it, and
\* the calls served afterwards construct none and rebind none.
C17_OneClientEach ==
    boot = "serving" =>
        /\ Cardinality(ClientsOfKind("embedding")) = 1
        /\ Cardinality(ClientsOfKind("vector_store")) = 1
        /\ \A e \in ClientsOfKind("embedding"), v \in ClientsOfKind("vector_store") :
              e < v /\ clients[v].embedding_function = e
        /\ globals.vector_store \in ClientsOfKind("vector_store")

\* What one call is determined by: its own arguments, the store, and
\* whether its own wait timed out.
OwnResult(c) ==
    IF timedOut[c] THEN <<>>
    ELSE Shape(SimilaritySearch(store, Clamp(arg[c].k), FilterDict(arg[c].tag)))

\* The call took no step of its own.
Idles(c) ==
    /\ pc'[c] = pc[c]
    /\ elapsed'[c] = elapsed[c]
    /\ thread'[c] = thread[c]

\* C18: in every interleaving of concurrent retrieval calls each call's
\* clamped k, filter and returned list are determined by its own arguments
\* and by the outcome and timing of its own search, and a step of one call
\* (a timeout, a failure, a late completion) changes none of them for
\* another call.
C18_Independent ==
    /\ [](\A c \in Calls :
            /\ pc[c] /= "idle" =>
                  /\ storeK[c] = Clamp(arg[c].k)
                  /\ storeFilter[c] = FilterDict(arg[c].tag)
            /\ pc[c] = "returned" => result[c] = OwnResult(c)
            /\ pc[c] = "raised" => (exc[c] \in SearchErrors /\ ~timedOut[c]))
    /\ [][\A c \in Calls :
            Idles(c) =>
                /\ arg'[c] = arg[c]
                /\ storeK'[c] = storeK[c]
                /\ storeFilter'[c] = storeFilter[c]
                /\ result'[c] = result[c]
                /\ exc'[c] = exc[c]
                /\ timedOut'[c] = timedOut[c]]_vars

\* c2 returned its two documents, and keeps them while c1 has timed out
\* and its thread has finished late.
C18_Witness ==
    /\ pc["c2"] = "returned"
    /\ ~timedOut["c2"]
    /\ Len(result["c2"]) = 2
    /\ pc["c1"] = "returned"
    /\ timedOut["c1"]
    /\ thread["c1"] = "done"
    /\ result["c1"] = <<>>
    /\ arg["c1"] /= arg["c2"]

====
